---- MODULE Spec2Model ----
(***************************************************************************)
(* FluentSender (lib/sender.js): the event forwarding engine.  One sender  *)
(* object, its socket reference, its send queue, the flush guard flag, and *)
(* the callbacks Node's event loop holds for it: the process.nextTick      *)
(* queue, pending socket writes, once('data') listeners, ack timers and    *)
(* reconnect timers.                                                       *)
(*                                                                         *)
(* Every handler is one action.  A handler's body is a function from the   *)
(* sender's state (a record S with one field per variable) to its state,   *)
(* composed in the order of the statements of the source.                  *)
(***************************************************************************)
EXTENDS Integers, Sequences, FiniteSets, TLC

\* ---- bounds ------------------------------------------------------------
MaxItems == 2     \* items that pass validation and are enqueued
MaxSockets == 2   \* net.Socket objects created over the run
MaxTimers == 1    \* reconnect timers pending at once
MaxSupervisors == 1  \* calls of _setupErrorHandler
MaxEnds == 1      \* calls of end()
MaxCloses == 2    \* calls of end() in the closing runs

\* ---- JavaScript values -------------------------------------------------
Undefined == "undefined"
Null == "null"
Object == "{}"
UserFn == "fn"                  \* a callback the caller supplies
EndFn == "end(fn)"              \* end()'s arrow function, caller callback given
EndFnNoCb == "end()"            \* end()'s arrow function, no caller callback
Labels == {Undefined, "", "app"}
Prefixes == {Undefined, "fluent"}
DataValues == {Object, Null, Undefined, "42", "true", "text"}
Functions == {UserFn, EndFn, EndFnNoCb}

\* typeof
TypeOf(v) ==
  CASE v = Undefined -> "undefined"
    [] v = Null -> "object"
    [] v = Object -> "object"
    [] v = "42" -> "number"
    [] v = "true" -> "boolean"
    [] v \in Functions -> "function"
    [] OTHER -> "string"

\* ToBoolean
Truthy(v) == v \notin {Undefined, Null, ""}

NullTag == <<>>
\* [a, b].join('.') is kept as the sequence of its components
Join(a, b) == <<a, b>>

\* ---- state ---------------------------------------------------------------
VARIABLES
  tag_prefix,          \* this.tag_prefix
  requireAckResponse,  \* this.requireAckResponse
  reconnectInterval,   \* this.reconnectInterval
  socket,              \* this._socket: 0 is null, else an index of socks
  socks,               \* every net.Socket created, in creation order
  sendQueue,           \* this._sendQueue: item ids
  flushing,            \* this._flushingSendQueue (undefined is FALSE)
  items,               \* the items made by _makePacketItem and enqueued
  ticks,               \* the process.nextTick queue
  ackTimers,           \* items whose ackResponseTimeout timer is armed
  reconnectTimers,     \* pending setTimeout(..., reconnectInterval)
  supervisors,         \* 'error' listeners installed by _setupErrorHandler
  ends,                \* calls of end() so far
  written,             \* history: the items handed to socket.write, in order
  calls,               \* history: per item, the arguments its callback got
  raised,              \* history: <<error, item>> given to _handleEvent('error')
  delivered,           \* history: errors a caller's callback got for calls that enqueued nothing
  thrown,              \* history: <<exception, item>> thrown out of a handler
  dispatched           \* history: the calls of _handleEvent, each with its steps in order

cfg == <<tag_prefix, requireAckResponse, reconnectInterval>>
vars == <<tag_prefix, requireAckResponse, reconnectInterval, socket, socks,
          sendQueue, flushing, items, ticks, ackTimers, reconnectTimers,
          supervisors, ends, written, calls, raised, delivered, thrown,
          dispatched>>

Cur == [socket |-> socket, socks |-> socks, sendQueue |-> sendQueue,
        flushing |-> flushing, items |-> items, ticks |-> ticks,
        ackTimers |-> ackTimers, reconnectTimers |-> reconnectTimers,
        supervisors |-> supervisors, ends |-> ends, written |-> written,
        calls |-> calls,
        raised |-> raised, delivered |-> delivered, thrown |-> thrown,
        dispatched |-> dispatched]

Bounded(S) ==
  /\ Len(S.items) <= MaxItems
  /\ Len(S.socks) <= MaxSockets
  /\ S.reconnectTimers <= MaxTimers
  /\ S.ends <= MaxCloses

Commit(S) ==
  /\ Bounded(S)
  /\ socket' = S.socket
  /\ socks' = S.socks
  /\ sendQueue' = S.sendQueue
  /\ flushing' = S.flushing
  /\ items' = S.items
  /\ ticks' = S.ticks
  /\ ackTimers' = S.ackTimers
  /\ reconnectTimers' = S.reconnectTimers
  /\ supervisors' = S.supervisors
  /\ ends' = S.ends
  /\ written' = S.written
  /\ calls' = S.calls
  /\ raised' = S.raised
  /\ delivered' = S.delivered
  /\ thrown' = S.thrown
  /\ dispatched' = S.dispatched
  /\ UNCHANGED cfg

DefaultReconnectInterval == 600000

\* options.reconnectInterval || 600000
OrDefault(v, d) == IF v = 0 THEN d ELSE v

FluentSender(prefix, options) ==
  /\ tag_prefix = prefix
  /\ requireAckResponse = options.requireAckResponse
  /\ reconnectInterval = OrDefault(options.reconnectInterval, DefaultReconnectInterval)
  /\ socket = 0
  /\ socks = <<>>
  /\ sendQueue = <<>>
  /\ flushing = FALSE
  /\ items = <<>>
  /\ ticks = <<>>
  /\ ackTimers = {}
  /\ reconnectTimers = 0
  /\ supervisors = 0
  /\ ends = 0
  /\ written = <<>>
  /\ calls = <<>>
  /\ raised = {}
  /\ delivered = {}
  /\ thrown = {}
  /\ dispatched = {}

\* new FluentSender('fluent', {requireAckResponse: ack})
Init ==
  \E ack \in BOOLEAN :
    FluentSender("fluent", [requireAckResponse |-> ack, reconnectInterval |-> 0])

\* ---- net.Socket ----------------------------------------------------------
\* st: "live" (writable), "ended" (end() called or the peer closed: not
\* writable), "destroyed".  connecting: connect() was called and 'connect'
\* has not fired.  onConnect: the callback given to connect().  wr: the
\* writes whose callback is pending.  dataL: the once('data') listeners.
NewSocket(cb) ==
  [st |-> "live", connecting |-> TRUE, onConnect |-> cb, wr |-> <<>>, dataL |-> <<>>]

Writable(S) == S.socks[S.socket].st = "live"

\* mutant: destroy() leaves the socket as it is
Destroy_Skipped(S, s) == S

\* socket.destroy(): no event of the socket reaches its 'data' listeners again
Destroy(S, s) ==
  [S EXCEPT !.socks[s].st = "destroyed", !.socks[s].connecting = FALSE,
            !.socks[s].dataL = <<>>]

\* ---- _handleEvent and the callbacks ---------------------------------------
\* this.on('error', ...) of _setupErrorHandler, once per installed listener
RECURSIVE Supervise(_, _)
Supervise(S, n) ==
  IF n = 0 THEN S
  ELSE Supervise([S EXCEPT !.flushing = FALSE, !.reconnectTimers = @ + 1], n - 1)

\* this._eventEmitter.listenerCount(signal): the subscribers are the
\* listeners of _setupErrorHandler
ListenerCount(S, signal) == IF signal = "error" THEN S.supervisors ELSE 0

\* this._eventEmitter.emit(signal, data): an 'error' nobody listens to is
\* thrown by EventEmitter
Broadcast(S, signal, item) ==
  IF signal # "error" THEN S
  ELSE IF S.supervisors = 0
  THEN [S EXCEPT !.thrown = @ \cup {<<"UnhandledError", item>>}]
  ELSE Supervise(S, S.supervisors)

\* mutant: the event is emitted before the callback is called
Dispatch_EmitFirst(cb, n) ==
  (IF n > 0 THEN <<"emit">> ELSE <<>>) \o (IF cb # Undefined THEN <<"callback">> ELSE <<>>)

\* the steps of _handleEvent, in order: callback && callback(data), then
\* emit if listenerCount(signal) > 0
Dispatch(cb, n) ==
  (IF cb # Undefined THEN <<"callback">> ELSE <<>>) \o (IF n > 0 THEN <<"emit">> ELSE <<>>)

\* the entry of _handleEvent: the call and its steps are recorded
Enter(S, signal, data, cb, item) ==
  LET n == ListenerCount(S, signal)
      S1 == [S EXCEPT !.dispatched = @ \cup {[callback |-> cb # Undefined, listeners |-> n,
                                              steps |-> Dispatch(cb, n)]}]
  IN IF signal = "error" THEN [S1 EXCEPT !.raised = @ \cup {<<data, item>>}] ELSE S1

\* callback && callback(arg) for a caller's callback; item 0: the call
\* enqueued no item
UserCall(S, cb, arg, item) ==
  IF cb # UserFn THEN S
  ELSE IF item = 0
  THEN (IF arg = Undefined THEN S ELSE [S EXCEPT !.delivered = @ \cup {arg}])
  ELSE [S EXCEPT !.calls[item] = Append(@, arg)]

\* _handleEvent with a caller's callback (or none)
UserStep(S, k, signal, data, cb, item) ==
  IF k = "callback" THEN UserCall(S, cb, data, item) ELSE Broadcast(S, signal, item)

HandleEventUser(S, signal, data, cb, item) ==
  LET steps == Dispatch(cb, ListenerCount(S, signal))
      S0 == Enter(S, signal, data, cb, item)
      S1 == IF Len(steps) >= 1 THEN UserStep(S0, steps[1], signal, data, cb, item) ELSE S0
  IN IF Len(steps) >= 2 THEN UserStep(S1, steps[2], signal, data, cb, item) ELSE S1

_close(S) ==
  IF S.socket # 0
  THEN [S EXCEPT !.socks[S.socket].st = "ended", !.socket = 0]
  ELSE S

\* end()'s arrow function (err) => { this._close(); ... }
EndCallback(S, cb, err, item) ==
  LET S1 == _close(S)
      inner == IF cb = EndFn THEN UserFn ELSE Undefined
  IN IF err # Undefined
     THEN HandleEventUser(S1, "error", err, inner, item)
     ELSE UserCall(S1, inner, Undefined, item)

\* callback && callback(arg)
Invoke(S, cb, arg, item) ==
  IF cb \in {EndFn, EndFnNoCb} THEN EndCallback(S, cb, arg, item)
  ELSE UserCall(S, cb, arg, item)

Step(S, k, signal, data, cb, item) ==
  IF k = "callback" THEN Invoke(S, cb, data, item) ELSE Broadcast(S, signal, item)

_handleEvent(S, signal, data, cb, item) ==
  LET steps == Dispatch(cb, ListenerCount(S, signal))
      S0 == Enter(S, signal, data, cb, item)
      S1 == IF Len(steps) >= 1 THEN Step(S0, steps[1], signal, data, cb, item) ELSE S0
  IN IF Len(steps) >= 2 THEN Step(S1, steps[2], signal, data, cb, item) ELSE S1

\* ---- _makePacketItem -------------------------------------------------------
_makePacketItem(label, data) ==
  [tag |-> IF Truthy(tag_prefix) /\ Truthy(label) THEN Join(tag_prefix, label)
           ELSE IF Truthy(tag_prefix) THEN <<tag_prefix>>
           ELSE IF Truthy(label) THEN <<label>>
           ELSE NullTag,
   data |-> data]

\* ---- _connect ----------------------------------------------------------------
_connect(S, cb) ==
  IF S.socket = 0
  THEN [S EXCEPT !.socks = Append(@, NewSocket(cb)), !.socket = Len(S.socks) + 1]
  ELSE IF ~Writable(S)
  THEN [Destroy(S, S.socket) EXCEPT !.socket = 0,
                 !.ticks = Append(@, [k |-> "connect", cb |-> cb])]
  ELSE [S EXCEPT !.ticks = Append(@, [k |-> "ready", cb |-> cb])]

\* ---- _flushSendQueue, _doFlushSendQueue ----------------------------------
_flushSendQueue(S) ==
  IF S.flushing THEN S
  ELSE [S EXCEPT !.flushing = TRUE, !.ticks = Append(@, [k |-> "flush", cb |-> Undefined])]

Shift(q) == Tail(q)

_doFlushSendQueue(S) ==
  IF S.sendQueue = <<>>
  THEN [S EXCEPT !.flushing = FALSE]
  ELSE LET item == Head(S.sendQueue)
           S1 == [S EXCEPT !.sendQueue = Shift(@)]
       IN IF S1.socket = 0
          THEN [S1 EXCEPT !.thrown = @ \cup {<<"TypeError", item>>}]
          ELSE [S1 EXCEPT !.socks[S1.socket].wr = Append(@, item),
                          !.written = Append(@, item)]

\* mutant: the callback given to _connect does nothing
OnReady_Dropped(S, cb) == S

\* the callbacks given to _connect
OnReady(S, cb) == IF cb = "flush" THEN _flushSendQueue(S) ELSE S

\* ---- the public operations --------------------------------------------------
\* mutant: unshift in place of push
Push_Front(q, id) == <<id>> \o q

\* this._sendQueue.push(item)
Push(q, id) == Append(q, id)

\* emit's argument parsing (lines 34-45), then its body
emitArgs(S, args) ==
  LET hasLabel == args # <<>> /\ TypeOf(args[1]) = "string"
      label == IF hasLabel THEN args[1] ELSE Undefined
      a1 == IF hasLabel THEN Tail(args) ELSE args
      data == IF a1 = <<>> THEN Undefined ELSE Head(a1)
      a2 == IF a1 = <<>> THEN a1 ELSE Tail(a1)
      a3 == IF a2 # <<>> /\ TypeOf(a2[1]) # "function" THEN Tail(a2) ELSE a2
      callback == IF a3 # <<>> /\ TypeOf(a3[1]) = "function" THEN a3[1] ELSE Undefined
      item == _makePacketItem(label, data)
  IN IF item.tag = NullTag
     THEN _handleEvent(S, "error", "MissingTag", callback, 0)
     ELSE IF TypeOf(item.data) # "object"
     THEN _handleEvent(S, "error", "DataTypeError", callback, 0)
     ELSE LET id == Len(S.items) + 1
              S1 == [S EXCEPT !.items = Append(@, [tag |-> item.tag, data |-> item.data,
                                                    callback |-> callback]),
                              !.calls = Append(@, <<>>),
                              !.sendQueue = Push(@, id)]
          IN _connect(S1, "flush")

\* the argument list of a call emit([label], data, [callback])
Args(label, data, callback) ==
  (IF label = Undefined THEN <<>> ELSE <<label>>) \o <<data>> \o
  (IF callback = Undefined THEN <<>> ELSE <<callback>>)

emit(label, data, callback) ==
  Commit(emitArgs(Cur, Args(label, data, callback)))

end(label, data, callback) ==
  LET S == [Cur EXCEPT !.ends = @ + 1]
  IN Commit(IF label # Undefined /\ label # Null /\ data # Undefined /\ data # Null
            THEN emitArgs(S, <<label, data, IF callback = UserFn THEN EndFn ELSE EndFnNoCb>>)
            ELSE [S EXCEPT !.ticks = Append(@, [k |-> "end", cb |-> callback])])

\* called, if at all, before the sender is used
_setupErrorHandler ==
  /\ supervisors < MaxSupervisors
  /\ items = <<>> /\ socks = <<>> /\ ends = 0
  /\ Commit(IF reconnectInterval = 0 THEN Cur
            ELSE [Cur EXCEPT !.supervisors = @ + 1])

\* ---- process.nextTick callbacks -------------------------------------------
Tick ==
  /\ ticks # <<>>
  /\ LET t == Head(ticks)
         S == [Cur EXCEPT !.ticks = Tail(@)]
     IN Commit(
          CASE t.k = "connect" -> _connect(S, t.cb)
            [] t.k = "ready" -> OnReady(S, t.cb)
            [] t.k = "flush" ->
                 IF S.socket = 0 THEN [S EXCEPT !.flushing = FALSE]
                 ELSE IF Writable(S) THEN _doFlushSendQueue(S)
                 ELSE [S EXCEPT !.thrown = @ \cup {<<"ReferenceError", 0>>}]
            [] t.k = "doFlush" -> _doFlushSendQueue(S)
            [] t.k = "end" -> UserCall(_close(S), t.cb, Undefined, 0))

\* ---- socket events (each runs on a turn of its own, the tick queue empty) --
\* 'connect': the handler of line 153, then the callback given to connect()
SocketConnect(s) ==
  /\ ticks = <<>>
  /\ socks[s].connecting
  /\ socks[s].st # "destroyed"
  /\ LET S == [Cur EXCEPT !.socks[s].connecting = FALSE]
     IN Commit(OnReady(_handleEvent(S, "connect", Undefined, Undefined, 0),
                       socks[s].onConnect))

\* 'error' of socket s: Node destroys s, then the handler of lines 146-152
SocketError(s) ==
  /\ ticks = <<>>
  /\ socks[s].st # "destroyed"
  /\ LET S == Destroy(Cur, s)
     IN Commit(IF S.socket # 0
               THEN _handleEvent([Destroy(S, S.socket) EXCEPT !.socket = 0],
                                 "error", "TransportError", Undefined, 0)
               ELSE S)

\* the peer closes its side: the socket ends and is no longer writable
SocketEnd(s) ==
  /\ ticks = <<>>
  /\ socks[s].st = "live"
  /\ ~socks[s].connecting
  /\ Commit([Cur EXCEPT !.socks[s].st = "ended"])

\* the callback of socket.write (lines 200-225) for the oldest pending write
WriteCallback(s) ==
  /\ ticks = <<>>
  /\ socks[s].wr # <<>>
  /\ ~socks[s].connecting
  /\ LET item == Head(socks[s].wr)
         S == [Cur EXCEPT !.socks[s].wr = Tail(@)]
     IN Commit(
          IF requireAckResponse
          THEN IF S.socket = 0
               THEN [S EXCEPT !.thrown = @ \cup {<<"TypeError", item>>}]
               ELSE [S EXCEPT !.socks[S.socket].dataL = Append(@, item),
                              !.ackTimers = @ \cup {item}]
          ELSE LET S1 == Invoke(S, S.items[item].callback, Undefined, item)
               IN [S1 EXCEPT !.ticks = Append(@, [k |-> "doFlush", cb |-> Undefined])])

\* mutant: the comparison is inverted
AckDiffers_Inverted(ack, item) == ack = item

\* response.ack !== item.options.chunk; an item's chunk is its id
AckDiffers(ack, item) == ack # item

\* timeoutId && clearTimeout(timeoutId)
ClearTimeout(timers, item) == timers \ {item}

\* the once('data') listener of lines 202-214
OnData(S, item, ack) ==
  LET S1 == [S EXCEPT !.ackTimers = ClearTimeout(@, item)]
      S2 == IF AckDiffers(ack, item)
            THEN _handleEvent(S1, "error", "ResponseError", S1.items[item].callback, item)
            ELSE S1
      S3 == Invoke(S2, S2.items[item].callback, Undefined, item)
  IN [S3 EXCEPT !.ticks = Append(@, [k |-> "doFlush", cb |-> Undefined])]

RECURSIVE EmitData(_, _, _)
EmitData(S, listeners, ack) ==
  IF listeners = <<>> THEN S
  ELSE EmitData(OnData(S, Head(listeners), ack), Tail(listeners), ack)

\* 'data' of socket s, a response whose ack is the chunk of item ack (0: of none)
SocketData(s, ack) ==
  /\ ticks = <<>>
  /\ socks[s].dataL # <<>>
  /\ socks[s].st # "destroyed"
  /\ Commit(EmitData([Cur EXCEPT !.socks[s].dataL = <<>>], socks[s].dataL, ack))

\* the setTimeout callback of lines 215-218
AckTimeout(item) ==
  /\ ticks = <<>>
  /\ item \in ackTimers
  /\ Commit(_handleEvent([Cur EXCEPT !.ackTimers = @ \ {item}], "error",
                         "ResponseTimeout", items[item].callback, item))

\* the setTimeout callback of lines 245-250
Reconnect ==
  /\ ticks = <<>>
  /\ reconnectTimers > 0
  /\ Commit(_connect([Cur EXCEPT !.reconnectTimers = @ - 1], "log"))

\* ---- the specifications ------------------------------------------------
\* The engine: one valid and one invalid record, end() in its three cases,
\* and every event of the sockets and the timers.
Next ==
  \/ \E c \in {Undefined, UserFn} : emit("app", Object, c)
  \/ emit("app", "text", Undefined)
  \/ \E l \in {Undefined, "app"}, d \in {Object, Undefined, "text"} :
       ends < MaxEnds /\ end(l, d, Undefined)
  \/ _setupErrorHandler
  \/ Tick
  \/ \E s \in 1..Len(socks) : SocketConnect(s)
  \/ \E s \in 1..Len(socks) : SocketError(s)
  \/ \E s \in 1..Len(socks) : SocketEnd(s)
  \/ \E s \in 1..Len(socks) : WriteCallback(s)
  \/ \E s \in 1..Len(socks), a \in 0..Len(items) : SocketData(s, a)
  \/ \E i \in 1..Len(items) : AckTimeout(i)
  \/ Reconnect

Spec == Init /\ [][Next]_vars

\* The argument handling of emit: every prefix, label and data value, without
\* acknowledgments and without faults of the transport.  Each call is made
\* on a turn of its own (calls in a row are in Next).
InitEmit ==
  \E p \in Prefixes :
    FluentSender(p, [requireAckResponse |-> FALSE, reconnectInterval |-> 0])

NextEmit ==
  \/ \E l \in Labels, d \in DataValues, c \in {Undefined, UserFn} :
       ticks = <<>> /\ emit(l, d, c)
  \/ _setupErrorHandler
  \/ Tick
  \/ \E s \in 1..Len(socks) : SocketConnect(s)
  \/ \E s \in 1..Len(socks) : WriteCallback(s)
  \/ Reconnect

SpecEmit == InitEmit /\ [][NextEmit]_vars

\* the chunks of the items that await their response on socket s
Awaited(s) == {socks[s].dataL[n] : n \in DOMAIN socks[s].dataL}

\* The fault-free run: valid records only, no transport error, no close, and
\* every acknowledgment answered, with the chunk of the item, before its
\* timeout.  The event loop runs the scheduled callbacks, and the connection,
\* the writes and the responses complete.
NextLive ==
  \/ \E c \in {Undefined, UserFn} : emit("app", Object, c)
  \/ _setupErrorHandler
  \/ Tick
  \/ \E s \in 1..Len(socks) : SocketConnect(s)
  \/ \E s \in 1..Len(socks) : WriteCallback(s)
  \/ \E s \in 1..Len(socks) : \E a \in Awaited(s) : SocketData(s, a)

Fairness ==
  /\ WF_vars(Tick)
  /\ WF_vars(\E s \in 1..Len(socks) : SocketConnect(s))
  /\ WF_vars(\E s \in 1..Len(socks) : WriteCallback(s))
  /\ WF_vars(\E s \in 1..Len(socks) : \E a \in Awaited(s) : SocketData(s, a))

SpecLive == Init /\ [][NextLive]_vars /\ Fairness

\* The closing runs: valid records, end() with and without a final pair, up
\* to MaxCloses times, and no fault of the transport.
NextEnd ==
  \/ \E c \in {Undefined, UserFn} : emit("app", Object, c)
  \/ \E l \in {Undefined, "app"}, c \in {Undefined, UserFn} : end(l, Object, c)
  \/ Tick
  \/ \E s \in 1..Len(socks) : SocketConnect(s)
  \/ \E s \in 1..Len(socks) : WriteCallback(s)
  \/ \E s \in 1..Len(socks) : \E a \in Awaited(s) : SocketData(s, a)

SpecEnd == Init /\ [][NextEnd]_vars

\* ---- claims ------------------------------------------------------------
Range(f) == {f[i] : i \in DOMAIN f}

\* the once('data') listeners armed on sockets that can still deliver data
Armed == {<<s, n>> \in (1..Len(socks)) \X (1..MaxItems + 1) : n \in DOMAIN socks[s].dataL}

\* the continuations of _doFlushSendQueue that are pending: the scheduled
\* steps, the pending writes and the armed ack waits
FlushSteps == {n \in DOMAIN ticks : ticks[n].k \in {"flush", "doFlush"}}
PendingWrites == {<<s, n>> \in (1..Len(socks)) \X (1..MaxItems + 1) : n \in DOMAIN socks[s].wr}
FlushPasses == Cardinality(FlushSteps) + Cardinality(PendingWrites) + Cardinality(Armed)

\* C1: the items handed to socket.write, in the order of the writes, are a
\* strictly increasing subsequence of the submission order (item ids count
\* submissions): never a later item before an earlier one, never one twice.
C1_WrittenInSubmissionOrder ==
  \A i, j \in DOMAIN written : i < j => written[i] < written[j]

\* both items written, the second on a second socket after a reconnect by
\* the supervisor's error handler
C1_Witness ==
  /\ written = <<1, 2>>
  /\ supervisors > 0
  /\ Len(socks) = 2
  /\ <<"TransportError", 0>> \in raised

\* C3: the callback of an enqueued item is never invoked a second time.
C3_CallbackAtMostOnce ==
  \A i \in DOMAIN calls : Len(calls[i]) <= 1

\* C4: with requireAckResponse at most one response listener is armed, that
\* is at most one written item awaits its acknowledgment.
C4_AtMostOneAwaitingAck ==
  requireAckResponse => Cardinality(Armed) <= 1

\* C5: at most one flush pass (a scheduled step, a pending write or an open
\* ack wait of the chain of _doFlushSendQueue) is active at any time.
C5_AtMostOneFlushPass ==
  FlushPasses <= 1

\* the items whose response listener is armed on socket s
Listeners(s) == Range(socks[s].dataL)

DoFlushTicks(q) == Cardinality({n \in DOMAIN q : q[n].k = "doFlush"})

\* the listener of item i processes a response whose ack is a
Responded(i, a) ==
  /\ (a # i) => <<"ResponseError", i>> \in raised'
  /\ (a = i) => (<<"ResponseError", i>> \in raised' <=> <<"ResponseError", i>> \in raised)
  /\ items[i].callback = UserFn =>
        /\ Len(calls'[i]) > Len(calls[i])
        /\ calls'[i][Len(calls'[i])] = Undefined
        /\ (a = i) => calls'[i] = Append(calls[i], Undefined)
        /\ (a # i) => calls'[i] = calls[i] \o <<"ResponseError", Undefined>>

\* every listener of the socket runs, and each schedules a next step
ResponsesProcessed ==
  \A s \in 1..Len(socks), a \in 0..Len(items) :
    SocketData(s, a) =>
      /\ \A i \in Listeners(s) : Responded(i, a)
      /\ DoFlushTicks(ticks') = Cardinality(Listeners(s))

ResponseErrorOnlyOnMismatch ==
  \A i \in 1..Len(items) :
    (<<"ResponseError", i>> \in raised' /\ <<"ResponseError", i>> \notin raised) =>
      \E s \in 1..Len(socks), a \in 0..Len(items) :
        SocketData(s, a) /\ i \in Listeners(s) /\ a # i

\* C6: when a response is processed for a written item, a ResponseError is
\* raised for it exactly when the ack differs from the item's chunk; either
\* way its callback fires (last without an argument) and a next step of the
\* flush loop is scheduled; and a ResponseError is raised for an item only
\* by a response with a different ack that its own listener processed.
C6_AckResponse ==
  [][ResponsesProcessed /\ ResponseErrorOnlyOnMismatch]_vars

\* a mismatching response has completed item 1 with a ResponseError, a
\* matching one item 2 without
C6_Witness ==
  /\ requireAckResponse
  /\ Len(calls) = 2
  /\ calls[1] = <<"ResponseError", Undefined>>
  /\ calls[2] = <<Undefined>>
  /\ <<"ResponseError", 2>> \notin raised
  /\ written = <<1, 2>>

\* the timer fires: ResponseTimeout goes to the error channel and to the callback
TimeoutRaises ==
  \A i \in 1..Len(items) :
    AckTimeout(i) =>
      /\ <<"ResponseTimeout", i>> \in raised'
      /\ items[i].callback = UserFn => calls'[i] = Append(calls[i], "ResponseTimeout")

\* the write of an item completes (on a socket that was not destroyed): the
\* timer of the item is armed
TimerArmedOnWrite ==
  \A s \in 1..Len(socks) :
    (WriteCallback(s) /\ requireAckResponse /\ socks[s].st # "destroyed") =>
      Head(socks[s].wr) \in ackTimers'

\* the response is processed: the timer of the item is cancelled
ResponseCancelsTimer ==
  \A s \in 1..Len(socks), a \in 0..Len(items) :
    SocketData(s, a) => \A i \in Listeners(s) : i \notin ackTimers'

\* a ResponseTimeout is raised only by the armed timer of the item, and never
\* once the item's callback has been called for its response
TimeoutOnlyWhileArmed ==
  \A i \in 1..Len(items) :
    (<<"ResponseTimeout", i>> \in raised' /\ <<"ResponseTimeout", i>> \notin raised) =>
      /\ i \in ackTimers
      /\ AckTimeout(i)
      /\ Undefined \notin Range(calls[i])

\* a timer is armed only by the completion of the item's write
TimerArmedOnlyOnWrite ==
  \A i \in 1..Len(items) :
    (i \in ackTimers' /\ i \notin ackTimers) =>
      \E s \in 1..Len(socks) : WriteCallback(s) /\ Head(socks[s].wr) = i

\* C7: with requireAckResponse, once an item has been written (its write has
\* completed) its timer is armed; when the timer fires, ResponseTimeout is
\* raised on the error channel and given to the item's callback; a response
\* processed first cancels the timer, and no ResponseTimeout is raised for
\* the item after.
C7_AckTimeout ==
  [][/\ TimerArmedOnWrite
     /\ TimeoutRaises
     /\ ResponseCancelsTimer
     /\ TimeoutOnlyWhileArmed
     /\ TimerArmedOnlyOnWrite]_vars

\* the connection this._socket refers to is established and writable
Established ==
  /\ socket # 0
  /\ socks[socket].st = "live"
  /\ ~socks[socket].connecting

\* C10: onReady, the callback given to _connect, is invoked only when a
\* connection is established and writable: on the tick _connect scheduled
\* for it, or by the 'connect' event of the socket _connect created.
C10_ReadyOnlyWhenEstablished ==
  [][/\ (Tick /\ Head(ticks).k = "ready") => Established
     /\ \A s \in 1..Len(socks) : SocketConnect(s) => (socket' = s /\ Established')]_vars

\* ---- queued before the connection ------------------------------------------
\* items are submitted and no connection is established yet
QueuedBeforeConnection ==
  /\ items # <<>>
  /\ written = <<>>
  /\ \A s \in 1..Len(socks) : socks[s].connecting

\* every submitted item has been written, once and in submission order, the
\* send queue is empty and the flush guard flag is cleared
AllWritten ==
  /\ written = [i \in 1..Len(items) |-> i]
  /\ sendQueue = <<>>
  /\ ~flushing

\* C2: items submitted with emit before any connection exists are, once the
\* connection is established (no transport error, every acknowledgment
\* answered), eventually all written, each once and in submission order, and
\* the send queue is then empty with the flush guard flag cleared.
C2_QueuedItemsEventuallyWritten == QueuedBeforeConnection ~> AllWritten

C2_Witness ==
  /\ Len(items) = MaxItems
  /\ AllWritten
  /\ requireAckResponse
  /\ Len(socks) = 1

\* ---- the validation of emit ------------------------------------------------
\* composite data: an object (null is not one)
Composite(d) == d = Object

\* the calls emit(l, d, c) in which d is taken as the data: a string in the
\* first position is taken as the label
AsData(l, d) == l # Undefined \/ TypeOf(d) # "string"

\* the call raises err and gives it to its callback
Fails(err, c) ==
  /\ <<err, 0>> \in raised'
  /\ c = UserFn => err \in delivered'

PrimitiveDataRejected ==
  \A l \in Labels, d \in DataValues, c \in {Undefined, UserFn} :
    (/\ emit(l, d, c)
     /\ AsData(l, d) /\ ~Composite(d)
     /\ Truthy(tag_prefix) \/ Truthy(l)) =>
      /\ Fails("DataTypeError", c)
      /\ sendQueue' = sendQueue
      /\ socket' = socket

QueuedDataComposite == \A i \in Range(sendQueue) : Composite(items[i].data)

\* C8: emit with a resolvable tag and data that is not composite (a string,
\* a number, a boolean, null, undefined) fails with DataTypeError, given to
\* the callback and raised on the error channel, and leaves the send queue
\* and the connection reference unchanged; every queued item has composite
\* data.
C8_PrimitiveDataRejected == [][PrimitiveDataRejected]_vars /\ []QueuedDataComposite

MissingTagRejected ==
  \A l \in Labels, d \in DataValues, c \in {Undefined, UserFn} :
    (/\ emit(l, d, c)
     /\ AsData(l, d)
     /\ ~Truthy(tag_prefix) /\ ~Truthy(l)) =>
      /\ Fails("MissingTag", c)
      /\ sendQueue' = sendQueue
      /\ flushing' = flushing
      /\ socket' = socket

\* the tag of prefix and label: prefix.label, prefix or label
TagOf(prefix, l) ==
  IF Truthy(prefix) /\ Truthy(l) THEN <<prefix, l>>
  ELSE IF Truthy(prefix) THEN <<prefix>> ELSE <<l>>

TagResolved ==
  \A l \in Labels, d \in DataValues, c \in {Undefined, UserFn} :
    (/\ emit(l, d, c)
     /\ AsData(l, d)
     /\ Truthy(tag_prefix) \/ Truthy(l)) =>
      /\ <<"MissingTag", 0>> \in raised' => <<"MissingTag", 0>> \in raised
      /\ Len(items') > Len(items) => items'[Len(items')].tag = TagOf(tag_prefix, l)

\* C9: emit with neither a prefix nor a label fails with MissingTag, given
\* to the callback and raised on the error channel, and leaves the send
\* queue, the flush guard flag and the connection reference unchanged; with
\* a prefix or a label the tag is prefix.label, prefix or label and no
\* MissingTag is raised.
C9_MissingTag == [][MissingTagRejected /\ TagResolved]_vars

\* ---- transport errors ------------------------------------------------------
\* an error of the active connection: it is destroyed, the reference is
\* cleared, the failure is raised, and no socket is created or scheduled
ErrorClearsConnection ==
  \A s \in 1..Len(socks) :
    (SocketError(s) /\ socket = s) =>
      /\ socket' = 0
      /\ socks'[s].st = "destroyed"
      /\ <<"TransportError", 0>> \in raised'
      /\ Len(socks') = Len(socks)
      /\ \A n \in DOMAIN ticks' : ticks'[n].k # "connect"

\* without a supervisor the reference leaves null only by an emit (or by
\* the retry that an emit's _connect scheduled)
UnconnectedUntilEmit ==
  (supervisors = 0 /\ socket = 0 /\ socket' # 0) =>
    \/ Len(items') > Len(items)
    \/ ticks # <<>> /\ Head(ticks).k = "connect" /\ Tick

\* C11: a transport error on the active connection destroys it, clears the
\* connection reference and raises the failure on the error channel, and
\* _connect's error handler starts no connection; without a supervisor the
\* reference stays null until the next emit.
C11_ErrorClearsConnection == [][ErrorClearsConnection /\ UnconnectedUntilEmit]_vars

C11_Witness ==
  /\ supervisors = 0
  /\ socket = 0
  /\ Len(socks) = 1 /\ socks[1].st = "destroyed"
  /\ <<"TransportError", 0>> \in raised
  /\ sendQueue # <<>>
  /\ ticks = <<>>

\* the items with a caller's callback that are queued, being written on
\* socket s, or awaiting their response on socket s
InFlight(s) ==
  {i \in DOMAIN items :
     /\ items[i].callback = UserFn
     /\ \/ i \in Range(sendQueue)
        \/ i \in Range(socks[s].wr)
        \/ i \in Range(socks[s].dataL)}

\* C12: a transport error of the active connection is given to the callback
\* of every item that is queued, being written or awaiting its
\* acknowledgment, as well as raised on the error channel.
C12_ErrorReachesItemCallbacks ==
  [][\A s \in 1..Len(socks) :
       (SocketError(s) /\ socket = s) =>
         /\ <<"TransportError", 0>> \in raised'
         /\ \A i \in InFlight(s) : "TransportError" \in Range(calls'[i])]_vars

\* ---- end ------------------------------------------------------------------
\* the final items: the items end(label, data) submitted
FinalItems == {i \in DOMAIN items : items[i].callback \in {EndFn, EndFnNoCb}}

\* the step terminates the connection: _close ends the socket and clears
\* the reference
Closes == socket # 0 /\ socket' = 0 /\ socks'[socket].st = "ended"

FinalItemWrittenBeforeClose ==
  Closes => \A i \in FinalItems : i \in Range(written)

\* end() with no pair: nothing is enqueued or written by the call, and its
\* scheduled callback terminates the connection and clears the reference
EndWithoutPair ==
  /\ \A c \in {Undefined, UserFn} :
       end(Undefined, Object, c) =>
         /\ items' = items /\ sendQueue' = sendQueue /\ written' = written
         /\ ticks' = Append(ticks, [k |-> "end", cb |-> c])
  /\ (Tick /\ Head(ticks).k = "end") =>
       /\ socket' = 0
       /\ socket # 0 => socks'[socket].st = "ended"
       /\ items' = items /\ sendQueue' = sendQueue /\ written' = written

\* C13: end(label, data) with a valid pair has its item written before the
\* connection is terminated, also when earlier items are queued or another
\* end() is pending; end() with no pair enqueues and writes nothing and
\* terminates the connection, clearing the reference.
C13_FinalItemBeforeClose == [][FinalItemWrittenBeforeClose /\ EndWithoutPair]_vars

\* ---- the reconnect supervisor ------------------------------------------------
\* C14: with reconnectInterval configured as 0 (every sender of Init is
\* constructed with reconnectInterval: 0) auto-reconnect is disabled: no
\* reconnect timer is ever armed and the supervisor never calls _connect.
C14_NoReconnectWhenDisabled == [](reconnectTimers = 0) /\ [][~Reconnect]_vars

\* ---- _handleEvent ------------------------------------------------------------
\* in every call of _handleEvent: the callback is called when one is given
\* and before anything is emitted; the event is emitted when, and only
\* when, a subscriber is registered
DispatchOrdered ==
  \A d \in dispatched :
    /\ d.steps \in {<<>>, <<"callback">>, <<"emit">>, <<"callback", "emit">>}
    /\ "callback" \in Range(d.steps) <=> d.callback
    /\ "emit" \in Range(d.steps) <=> d.listeners > 0

\* the callback gets the error in the step that raises it
CallbackGetsError ==
  \A e \in raised :
    (e[2] # 0 /\ items[e[2]].callback = UserFn) => e[1] \in Range(calls[e[2]])

NothingThrownByEmit == \A e \in thrown : e[1] # "UnhandledError"

\* C15: in every dispatch through _handleEvent a supplied callback is called
\* first, in the same step, with the error as argument; the event is
\* emitted afterwards and only if a subscriber is registered; with no
\* subscriber nothing is emitted and nothing is thrown.
C15_CallbackThenBroadcast ==
  DispatchOrdered /\ CallbackGetsError /\ NothingThrownByEmit

C15_Witness ==
  /\ [callback |-> TRUE, listeners |-> 1, steps |-> <<"callback", "emit">>] \in dispatched
  /\ [callback |-> FALSE, listeners |-> 0, steps |-> <<>>] \in dispatched
  /\ Len(calls) >= 1 /\ calls[1] = <<"ResponseTimeout">>
  /\ reconnectTimers = 1

\* ---- the start of a flush pass ------------------------------------------------
\* the step runs the callback _flushSendQueue scheduled
FlushStarts == Tick /\ Head(ticks).k = "flush"

AbortsWithoutConnection ==
  (FlushStarts /\ socket = 0) =>
    /\ flushing' = FALSE
    /\ sendQueue' = sendQueue
    /\ written' = written

RetriesWhenNotWritable ==
  (FlushStarts /\ socket # 0 /\ socks[socket].st # "live") =>
    /\ \E n \in DOMAIN ticks' : ticks'[n].k = "flush"
    /\ thrown' = thrown
    /\ sendQueue' = sendQueue

\* C16: a flush pass that starts with no connection aborts: the guard flag
\* is cleared and the queue is unchanged; one that starts with a
\* connection that is not writable schedules the writability check again
\* for a later turn.
C16_FlushStart == [][AbortsWithoutConnection /\ RetriesWhenNotWritable]_vars

\* ---- flush on connect --------------------------------------------------------
\* C17: whenever the current connection becomes established while the send
\* queue is not empty, whether emit or the supervisor's reconnect started
\* it, a flush pass is triggered (or is already running).
C17_FlushOnConnect ==
  [][\A s \in 1..Len(socks) :
       (SocketConnect(s) /\ socket = s /\ sendQueue # <<>>) => flushing']_vars

\* ---- errors of discarded sockets ----------------------------------------------
\* C18: an error of a socket that is no longer the current one (closed by
\* _close, or replaced by _connect) leaves the connection reference and the
\* current socket as they are.
C18_StaleErrorSparesCurrent ==
  [][\A s \in 1..Len(socks) :
       (SocketError(s) /\ socket # s) =>
         /\ socket' = socket
         /\ socket # 0 => socks'[socket] = socks[socket]]_vars

\* ---- the flush loop and the connection reference ------------------------------
\* an item leaves the send queue only into a write on the current connection
DequeuedIsWritten ==
  sendQueue' # sendQueue /\ Len(sendQueue') < Len(sendQueue) =>
    /\ socket # 0
    /\ written' = Append(written, Head(sendQueue))

\* C19: the flush loop never dequeues, writes or arms a response listener
\* with a null connection reference: this._socket is never dereferenced
\* while null, and every item removed from the queue is handed to
\* socket.write.
C19_NoFlushWithoutConnection ==
  [](\A e \in thrown : e[1] # "TypeError") /\ [][DequeuedIsWritten]_vars

\* ---- the guard flag ------------------------------------------------------------
\* C20: while the guard flag is set, a continuation of the flush loop is
\* pending: a scheduled step, a write completion or an armed response
\* listener.  (Stated for the runs in which no handler has thrown.)
C20_FlagImpliesActivity ==
  (flushing /\ thrown = {}) => (FlushSteps # {} \/ PendingWrites # {} \/ Armed # {})
====
